---- MODULE Spec2Model ----
(***************************************************************************)
(* Stripe Terminal POS (Ionic/Vue): the terminal session core.             *)
(*                                                                         *)
(*   TerminalService   src/src/services/terminal-service.ts                *)
(*   ApiClient         src/src/services/api-client.ts                      *)
(*   handlePayment     src/src/views/HomePage.vue                          *)
(*   useTerminal       src/unnamed/part_006 (the TerminalService variant)  *)
(*   cancelPaymentCollection  src/unnamed/part_003 (documented method)     *)
(*   withTimeout       terminal-service.ts and src/src/services/stripeTerminal.ts *)
(*                                                                         *)
(* JavaScript runs on one thread: an async function runs without           *)
(* interruption from its call up to its first await, and from one await to *)
(* the next.  Each such stretch is one action.  A task is a chain of       *)
(* nested async calls, kept as a stack of frames; a call pushes the        *)
(* callee's frame and runs the callee up to its first await; a callee that *)
(* settles pops its frame and leaves its outcome in ret, and the awaiting  *)
(* caller resumes in a later step.                                         *)
(***************************************************************************)
EXTENDS Naturals, Sequences, FiniteSets, TLC

VARIABLES
  state,      \* TerminalService.state (the reactive session state)
  terminal,   \* TerminalService.terminal: Null or the SDK handle
  sdk,        \* the device SDK's own side: connected reader, commands received
  stack,      \* per task: the frames of its nested async calls
  ret,        \* per task: the outcome of the call that settled last, not yet consumed
  timedOut,   \* per task: timeoutMs elapsed while its collection was awaiting the SDK
  flow,       \* HomePage.vue: isProcessing, amount and the locals of handlePayment
  api,        \* ApiClient alone: the request in flight and the last outcome
  race,       \* withTimeout and the collectPaymentMethod of stripeTerminal.ts built on it
  countdown,  \* PaymentCountdown.vue: its props, refs and the events it emitted
  keypad      \* NumericKeypad.vue: modelValue, the amount string, as its characters

vars == <<state, terminal, sdk, stack, ret, timedOut, flow, api, race, countdown, keypad>>

(***************************************************************************)
(* Bounds of the model                                                     *)
(***************************************************************************)
NumCallers == 2      \* concurrent direct callers of the service
MaxSdkCancels == 2   \* cancel-collection commands counted by the SDK
MaxAmountMilli == 150 \* ApiClient amounts, in thousandths of a major unit: 0.000 .. 0.150
MaxTimeOut == 3      \* the timeOut prop of PaymentCountdown, in seconds: 1 .. 3
MaxEmits == 2        \* events PaymentCountdown emits before the model stops counting
MaxAmountLen == 4    \* characters of the keypad amount
HttpTickMs == 5000   \* the step of the clock of a pending HTTP request, in milliseconds
MaxTimeoutTicks == 2 \* the longest timeoutMs given to withTimeout, in ticks of its clock

\* Tasks: the direct callers, then the three entry points of HomePage.vue
MountTask == NumCallers + 1     \* onMounted
PayTask == MountTask + 1        \* handlePayment (the Pay button)
CancelTask == PayTask + 1       \* cancelHandler (the modal's Cancel button)
Tasks == 1..CancelTask

(***************************************************************************)
(* Values                                                                  *)
(***************************************************************************)
Null == "null"
Undefined == "undefined"
Handle == "handle"
Readers == {"r1", "r2"}
PI == "pi"           \* a payment intent object

\* Lists the SDK may report on discovery (discoveredReaders)
ReaderLists == { <<>>, <<"r1">>, <<"r2", "r1">> }

(***************************************************************************)
(* JSON values of HTTP response bodies, and the JavaScript operators the   *)
(* ApiClient applies to them.                                              *)
(***************************************************************************)
JObj(f) == [t |-> "obj", f |-> f]
JStr(s) == [t |-> "str", s |-> s]
JNull == [t |-> "null"]
JUndef == [t |-> "undefined"]
NoFields == [k \in {} |-> JNull]

\* `key in v`: a TypeError unless v is an object
InThrows(v) == v.t # "obj"

\* v?.key : undefined on null/undefined, the property otherwise
OptGet(v, key) ==
  IF v.t = "obj" /\ key \in DOMAIN v.f THEN v.f[key] ELSE JUndef

\* v.key : as v?.key ; the callers below only use it where v is not nullish
Get(v, key) == OptGet(v, key)

\* !v is false
Truthy(v) ==
  CASE v.t = "obj" -> TRUE
    [] v.t = "str" -> v.s # ""
    [] OTHER -> FALSE

(***************************************************************************)
(* HTTP outcomes as axios reports them: a 2xx response resolves with the   *)
(* parsed body, everything else rejects.                                   *)
(***************************************************************************)
Resolved(body) == [kind |-> "resolved", body |-> body]
Rejected(why) == [kind |-> "rejected", body |-> JUndef, why |-> why]

TransportFailures == { Rejected("network"), Rejected("status"), Rejected("timeout") }

TokenResponses ==
  TransportFailures \cup { Resolved(b) : b \in
  { JObj(NoFields),                                  \* {}
    JObj("secret" :> JStr("tok")),                   \* {secret: 'tok'}
    JObj("secret" :> JStr("")),                      \* {secret: ''}
    JObj("data" :> JObj("secret" :> JStr("tok"))),   \* {data: {secret: 'tok'}}
    JObj("data" :> JObj("secret" :> JStr(""))),      \* {data: {secret: ''}}
    JStr(""),                                        \* empty body
    JNull } }

LocationResponses ==
  TransportFailures \cup { Resolved(b) : b \in
  { JObj(NoFields),
    JObj("data" :> JObj("location_id" :> JStr("loc"))),
    JObj("data" :> JObj("location_id" :> JStr(""))),
    JObj("data" :> JObj(NoFields)),
    JStr(""),
    JNull } }

IntentResponses ==
  TransportFailures \cup { Resolved(b) : b \in
  { JObj(NoFields),
    JObj("data" :> JObj("client_secret" :> JStr("cs"))),
    JObj("data" :> JObj("client_secret" :> JStr(""))),
    JObj("data" :> JObj(NoFields)),
    JStr(""),
    JNull } }


(***************************************************************************)
(* Outcomes of an async call: fulfilled with a value, or rejected.         *)
(* A Result is a fulfilled outcome with ok = success and, on failure, the  *)
(* TerminalError code.                                                     *)
(***************************************************************************)
NoRet == [fn |-> "none", kind |-> "none", ok |-> FALSE, code |-> "none",
          msg |-> "none", data |-> Undefined, list |-> <<>>]
Success(fn, data) == [fn |-> fn, kind |-> "value", ok |-> TRUE, code |-> "none",
                      msg |-> "none", data |-> data, list |-> <<>>]
SuccessList(fn, list) == [fn |-> fn, kind |-> "value", ok |-> TRUE, code |-> "none",
                          msg |-> "none", data |-> Undefined, list |-> list]
Failure(fn, code, msg) == [fn |-> fn, kind |-> "value", ok |-> FALSE, code |-> code,
                           msg |-> msg, data |-> Undefined, list |-> <<>>]
\* a rejection; code is the TerminalError code, or "Error" for any other exception
Thrown(fn, code, msg) == [fn |-> fn, kind |-> "throw", ok |-> FALSE, code |-> code,
                          msg |-> msg, data |-> Undefined, list |-> <<>>]

ErrorCodes ==
  { "CONNECTION_TOKEN_FAILED", "NO_READERS_FOUND", "READER_CONNECTION_FAILED",
    "READER_DISCONNECTION_FAILED", "LOCATION_ID_FETCH_FAILED", "PAYMENT_INTENT_FAILED",
    "PAYMENT_COLLECTION_FAILED", "PAYMENT_PROCESSING_FAILED", "OPERATION_TIMEOUT",
    "CONFIG_INVALID" }

\* error instanceof TerminalError
IsTerminalError(e) == e.kind = "throw" /\ e.code \in ErrorCodes

\* error.message of an exception that is not a TerminalError (an axios error, a
\* TypeError, an error of the device SDK): the text is the thrower's
MsgAxios == "error message"
MsgTypeError == "error message"
MsgSdk == "error message"

(***************************************************************************)
(* ApiClient (api-client.ts).  Each method is its try block followed by    *)
(* its catch clause.                                                       *)
(***************************************************************************)

\* the string a JSON value holds (data.secret handed on as it is)
StrOf(v) == IF v.t = "str" THEN v.s ELSE Undefined

getConnectionToken_try(resp) ==
  IF resp.kind = "rejected" THEN Thrown("getConnectionToken", "Error", MsgAxios)
  ELSE IF InThrows(resp.body) THEN Thrown("getConnectionToken", "Error", MsgTypeError)
  ELSE IF "secret" \in DOMAIN resp.body.f   \* 'secret' in response.data
       THEN Success("getConnectionToken", StrOf(Get(resp.body, "secret")))
       ELSE Thrown("getConnectionToken", "CONNECTION_TOKEN_FAILED", "Invalid response structure")

\* a catch clause that rethrows
getConnectionToken_rethrow(e) == e

getConnectionToken_catch(e) ==
  IF IsTerminalError(e) THEN Failure("getConnectionToken", e.code, e.msg)
  ELSE Failure("getConnectionToken", "CONNECTION_TOKEN_FAILED", "An unknown error occurred")

getConnectionToken(resp) ==
  LET r == getConnectionToken_try(resp)
  IN IF r.kind = "throw" THEN getConnectionToken_catch(r) ELSE r

getLocationId_try(resp) ==
  IF resp.kind = "rejected" THEN Thrown("getLocationId", "Error", MsgAxios)
  ELSE IF ~Truthy(OptGet(OptGet(resp.body, "data"), "location_id"))
       THEN Thrown("getLocationId", "READER_CONNECTION_FAILED", "Invalid location ID response")
       ELSE Success("getLocationId", StrOf(Get(Get(resp.body, "data"), "location_id")))

getLocationId_catch(e) ==
  IF IsTerminalError(e) THEN Failure("getLocationId", e.code, e.msg)
  ELSE Failure("getLocationId", "READER_CONNECTION_FAILED", "An unknown error occurred")

getLocationId(resp) ==
  LET r == getLocationId_try(resp)
  IN IF r.kind = "throw" THEN getLocationId_catch(r) ELSE r

\* Math.round(amount * 100) for amount = m/1000.  For m in 145, 285, 565, 575 the
\* double product (m/1000)*100 lies just below k + 0.5 although m/10 is exactly
\* k + 0.5 (IEEE-754 binary64): 0.145 * 100 = 14.499999999999998
amountInCents(m) ==
  IF m \in { 145, 285, 565, 575 } THEN m \div 10 ELSE (m + 5) \div 10

createPaymentIntent_try(resp) ==
  IF resp.kind = "rejected" THEN Thrown("createPaymentIntent", "Error", MsgAxios)
  ELSE IF ~Truthy(OptGet(OptGet(resp.body, "data"), "client_secret"))
       THEN Thrown("createPaymentIntent", "PAYMENT_INTENT_FAILED", "Invalid payment intent response")
       ELSE Success("createPaymentIntent", PI)

createPaymentIntent_catch(e) ==
  IF IsTerminalError(e) THEN Failure("createPaymentIntent", e.code, e.msg)
  ELSE Failure("createPaymentIntent", "PAYMENT_INTENT_FAILED", "An unknown error occurred")

createPaymentIntent(resp) ==
  LET r == createPaymentIntent_try(resp)
  IN IF r.kind = "throw" THEN createPaymentIntent_catch(r) ELSE r

\* DEFAULT_CONFIG of config.ts, its two timeouts (milliseconds)
DEFAULT_CONFIG == [ timeoutMs |-> 60000, httpTimeoutMs |-> 10000 ]

\* an axios instance given the payment-collection timeout
axiosTimeout_collection(config) == config.timeoutMs

\* axios.create({ ..., timeout: config.httpTimeoutMs })
axiosTimeout(config) == config.httpTimeoutMs

ResponsesOf(method) ==
  CASE method = "getConnectionToken" -> TokenResponses
    [] method = "getLocationId" -> LocationResponses
    [] OTHER -> IntentResponses

ApiApply(method, resp) ==
  CASE method = "getConnectionToken" -> getConnectionToken(resp)
    [] method = "getLocationId" -> getLocationId(resp)
    [] OTHER -> createPaymentIntent(resp)

(***************************************************************************)
(* Frames and the call discipline                                          *)
(***************************************************************************)
Frame(fn, pc, rd) == [fn |-> fn, pc |-> pc, rd |-> rd]
Top(t) == stack[t][Len(stack[t])]
Below(t) == SubSeq(stack[t], 1, Len(stack[t]) - 1)

\* task t's innermost call is fn, suspended at pc
At(t, fn, pc) == stack[t] # <<>> /\ Top(t).fn = fn /\ Top(t).pc = pc

\* ... and the call it awaits has settled
Awaited(t, fn, pc) == At(t, fn, pc) /\ ret[t].kind # "none"

\* the innermost call of t suspends at an await, above the frames stk
Suspend(t, stk, f) ==
  /\ stack' = [stack EXCEPT ![t] = Append(stk, f)]
  /\ ret' = [ret EXCEPT ![t] = NoRet]

\* the innermost call of t settles with outcome r, leaving the frames stk
Settle(t, stk, r) ==
  /\ stack' = [stack EXCEPT ![t] = stk]
  /\ ret' = [ret EXCEPT ![t] = r]

\* the frames of t with the innermost one moved to pc (it is about to await a callee)
Moved(t, pc) == Append(Below(t), [Top(t) EXCEPT !.pc = pc])

(***************************************************************************)
(* TerminalService (terminal-service.ts)                                   *)
(***************************************************************************)
InitState ==
  [ isInitialized |-> FALSE, isLoading |-> FALSE, isConnected |-> FALSE,
    lastError |-> Null, currentReader |-> Null, availableReaders |-> <<>>,
    lastPaymentIntent |-> Null ]

\* a finally block that leaves isLoading as it is
finallyMissing(s) == s

\* finally { this.state.isLoading = false }
finallyNotLoading(s) == [s EXCEPT !.isLoading = FALSE]

\* onUnexpectedReaderDisconnect, the callback given to StripeTerminal.create
onUnexpectedReaderDisconnect ==
  /\ terminal # Null
  /\ sdk.reader # Null
  /\ state' = [state EXCEPT !.isConnected = FALSE, !.currentReader = Null,
                            !.lastError = "Reader disconnected unexpectedly"]
  /\ sdk' = [sdk EXCEPT !.reader = Null]
  /\ UNCHANGED <<terminal, stack, ret, timedOut, flow, api, race, countdown, keypad>>

---------------------------------------------------------------------------
\* initialize(), from the call to `await new Promise(... 500)`
initialize_call(t, stk) ==
  /\ UNCHANGED sdk
  /\ \/ \* StripeTerminal.create throws: catch sets lastError and rethrows
        /\ state' = finallyNotLoading([state EXCEPT !.lastError = MsgSdk])
        /\ UNCHANGED terminal
        /\ Settle(t, stk, Thrown("initialize", "Error", MsgSdk))
     \/ /\ state' = [state EXCEPT !.isLoading = TRUE]
        /\ terminal' = Handle
        /\ Suspend(t, stk, Frame("initialize", "sleep", Null))

\* initialize(), after the 500 ms
initialize_resume(t) ==
  /\ At(t, "initialize", "sleep")
  /\ state' = finallyNotLoading([state EXCEPT !.isInitialized = TRUE])
  /\ Settle(t, Below(t), Success("initialize", Undefined))
  /\ UNCHANGED <<terminal, sdk, timedOut, flow, api, race, countdown, keypad>>

---------------------------------------------------------------------------
\* a catch that passes a TerminalError on with the code it was raised with
discoverReaders_keepCode(e) ==
  Failure("discoverReaders", IF IsTerminalError(e) THEN e.code ELSE "NO_READERS_FOUND", e.msg)

\* catch of discoverReaders: every error becomes NO_READERS_FOUND with its message
discoverReaders_catch(e) == Failure("discoverReaders", "NO_READERS_FOUND", e.msg)

\* the catch and finally of discoverReaders applied to exception e
discoverReaders_fail(t, e) ==
  /\ state' = finallyNotLoading([state EXCEPT !.lastError = discoverReaders_catch(e).msg])
  /\ Settle(t, Below(t), discoverReaders_catch(e))

\* discoverReaders(), from the call to `await this.apiClient.getLocationId()`
discoverReaders_call(t, stk) ==
  /\ state' = [state EXCEPT !.isLoading = TRUE]
  /\ Suspend(t, stk, Frame("discoverReaders", "await_location", Null))
  /\ UNCHANGED <<terminal, sdk>>

\* discoverReaders(), from the location answer to `await this.terminal.discoverReaders`
discoverReaders_location(t) ==
  /\ At(t, "discoverReaders", "await_location")
  /\ \E resp \in LocationResponses :
       LET locationId == getLocationId(resp) IN
       IF ~locationId.ok
       THEN discoverReaders_fail(t, Thrown("discoverReaders", "LOCATION_ID_FETCH_FAILED",
                                           locationId.msg))
       ELSE IF terminal = Null
       THEN discoverReaders_fail(t, Thrown("discoverReaders", "Error", MsgTypeError))
       ELSE /\ Suspend(t, Below(t), Frame("discoverReaders", "await_sdk", Null))
            /\ UNCHANGED state
  /\ UNCHANGED <<terminal, sdk, timedOut, flow, api, race, countdown, keypad>>

\* a discovery that keeps the readers it already had
discoverReaders_keep(s, readers) ==
  IF s.availableReaders # <<>> THEN s ELSE [s EXCEPT !.availableReaders = readers]

\* a discovery that also forgets the last error
discoverReaders_clearError(s, readers) ==
  [s EXCEPT !.availableReaders = readers, !.lastError = Null]

\* this.state.availableReaders = readers
discoverReaders_store(s, readers) == [s EXCEPT !.availableReaders = readers]

\* discoverReaders(), after the SDK's discovery resolved with the list readers
\* (discoverResult.discoveredReaders || [])
discoverReaders_found(t, readers) ==
  /\ At(t, "discoverReaders", "await_sdk")
  /\ state' = finallyNotLoading(discoverReaders_store(state, readers))
  /\ Settle(t, Below(t), SuccessList("discoverReaders", state'.availableReaders))

\* discoverReaders(), after the SDK's discovery settled
discoverReaders_sdk(t) ==
  /\ At(t, "discoverReaders", "await_sdk")
  /\ \/ \E readers \in ReaderLists : discoverReaders_found(t, readers)
     \/ discoverReaders_fail(t, Thrown("discoverReaders", "NO_READERS_FOUND", MsgSdk))
     \/ discoverReaders_fail(t, Thrown("discoverReaders", "Error", MsgSdk))
  /\ UNCHANGED <<terminal, sdk, timedOut, flow, api, race, countdown, keypad>>

---------------------------------------------------------------------------
connectReader_catch(e) == Failure("connectReader", "READER_CONNECTION_FAILED", e.msg)

connectReader_fail(t, stk, e) ==
  /\ state' = finallyNotLoading([state EXCEPT !.lastError = connectReader_catch(e).msg])
  /\ Settle(t, stk, connectReader_catch(e))

\* connectReader(reader), from the call to `await this.terminal.connectReader(reader)`
connectReader_call(t, stk, reader) ==
  /\ UNCHANGED <<terminal, sdk>>
  /\ IF reader \notin Readers \/ terminal = Null
     THEN \* reader.id of undefined, or this.terminal.connectReader of null
          connectReader_fail(t, stk, Thrown("connectReader", "Error", MsgTypeError))
     ELSE /\ state' = [state EXCEPT !.isLoading = TRUE]
          /\ Suspend(t, stk, Frame("connectReader", "await_sdk", reader))

\* connectReader(reader), after the SDK's connect settled
connectReader_sdk(t) ==
  /\ At(t, "connectReader", "await_sdk")
  /\ \/ \* connectResult.reader || reader
        /\ state' = finallyNotLoading([state EXCEPT !.currentReader = Top(t).rd,
                                                    !.isConnected = TRUE])
        /\ sdk' = [sdk EXCEPT !.reader = Top(t).rd]
        /\ Settle(t, Below(t), Success("connectReader", Top(t).rd))
     \/ /\ connectReader_fail(t, Below(t),
                              Thrown("connectReader", "READER_CONNECTION_FAILED", MsgSdk))
        /\ UNCHANGED sdk
     \/ /\ connectReader_fail(t, Below(t), Thrown("connectReader", "Error", MsgSdk))
        /\ UNCHANGED sdk
  /\ UNCHANGED <<terminal, timedOut, flow, api, race, countdown, keypad>>

---------------------------------------------------------------------------
\* disconnect(), from the call to `await new Promise(... 500)`
disconnect_call(t, stk) ==
  /\ state' = [state EXCEPT !.isLoading = TRUE]
  /\ Suspend(t, stk, Frame("disconnect", "sleep", Null))
  /\ UNCHANGED <<terminal, sdk>>

\* the catch and finally of disconnect
disconnect_fail(t, msg) ==
  /\ state' = finallyNotLoading([state EXCEPT !.lastError = msg])
  /\ Settle(t, Below(t), Success("disconnect", Undefined))

\* disconnect(), from the end of the 500 ms to `await this.terminal.disconnectReader()`
disconnect_resume(t) ==
  /\ At(t, "disconnect", "sleep")
  /\ IF terminal = Null
     THEN disconnect_fail(t, MsgTypeError)
     ELSE /\ Suspend(t, Below(t), Frame("disconnect", "await_sdk", Null))
          /\ UNCHANGED state
  /\ UNCHANGED <<terminal, sdk, timedOut, flow, api, race, countdown, keypad>>

\* a disconnect() that drops the flag and keeps the reader
disconnect_keepsReader(s) == [s EXCEPT !.isConnected = FALSE]

\* what disconnect() does to the state once disconnectReader() resolved
disconnect_done(s) == [s EXCEPT !.currentReader = Null]

\* disconnect(), after the SDK's disconnect settled
disconnect_sdk(t) ==
  /\ At(t, "disconnect", "await_sdk")
  /\ \/ \* resolved: the reader is released
        /\ state' = finallyNotLoading(disconnect_done(state))
        /\ sdk' = [sdk EXCEPT !.reader = Null]
        /\ Settle(t, Below(t), Success("disconnect", Undefined))
     \/ \* resolved with {error}: the result is not inspected
        /\ state' = finallyNotLoading(disconnect_done(state))
        /\ UNCHANGED sdk
        /\ Settle(t, Below(t), Success("disconnect", Undefined))
     \/ \* rejected
        /\ disconnect_fail(t, MsgSdk)
        /\ UNCHANGED sdk
  /\ UNCHANGED <<terminal, timedOut, flow, api, race, countdown, keypad>>

---------------------------------------------------------------------------
CAIR == "connectAndInitializeReader"

\* connectAndInitializeReader(), from the call to its first await
connectAndInitializeReader_call(t, stk) ==
  IF ~state.isInitialized
  THEN initialize_call(t, Append(stk, Frame(CAIR, "await_init", Null)))
  ELSE /\ Suspend(t, stk, Frame(CAIR, "sleep", Null))
       /\ UNCHANGED <<state, terminal, sdk>>

\* ... after `await this.initialize()`: a rejection propagates, else wait 200 ms
connectAndInitializeReader_init(t) ==
  /\ Awaited(t, CAIR, "await_init")
  /\ IF ret[t].kind = "throw"
     THEN Settle(t, Below(t), [ret[t] EXCEPT !.fn = CAIR])
     ELSE Suspend(t, Below(t), Frame(CAIR, "sleep", Null))
  /\ UNCHANGED <<state, terminal, sdk, timedOut, flow, api, race, countdown, keypad>>

\* ... after the 200 ms: disconnect first if connected, else discover
connectAndInitializeReader_sleep(t) ==
  /\ At(t, CAIR, "sleep")
  /\ IF state.isConnected
     THEN disconnect_call(t, Moved(t, "await_disconnect"))
     ELSE discoverReaders_call(t, Moved(t, "await_discover"))
  /\ UNCHANGED <<timedOut, flow, api, race, countdown, keypad>>

\* ... after `await this.disconnect()`
connectAndInitializeReader_disconnected(t) ==
  /\ Awaited(t, CAIR, "await_disconnect")
  /\ discoverReaders_call(t, Moved(t, "await_discover"))
  /\ UNCHANGED <<timedOut, flow, api, race, countdown, keypad>>

\* ... after `await this.discoverReaders()`: connect to data[0], or throw
connectAndInitializeReader_discovered(t) ==
  /\ Awaited(t, CAIR, "await_discover")
  /\ IF ~ret[t].ok \/ Len(ret[t].list) = 0
     THEN /\ Settle(t, Below(t), Thrown(CAIR, "NO_READERS_FOUND", "No available readers found"))
          /\ UNCHANGED <<state, terminal, sdk>>
     ELSE connectReader_call(t, Moved(t, "await_connect"), ret[t].list[1])
  /\ UNCHANGED <<timedOut, flow, api, race, countdown, keypad>>

\* ... after `await this.connectReader(readerToConnect)`
connectAndInitializeReader_connected(t) ==
  /\ Awaited(t, CAIR, "await_connect")
  /\ IF ~ret[t].ok
     THEN Settle(t, Below(t), Thrown(CAIR, "READER_CONNECTION_FAILED", ret[t].msg))
     ELSE Settle(t, Below(t), Success(CAIR, ret[t].data))
  /\ UNCHANGED <<state, terminal, sdk, timedOut, flow, api, race, countdown, keypad>>

---------------------------------------------------------------------------
\* createPaymentIntent(amount), from the call to `await this.apiClient.createPaymentIntent`
createPaymentIntent_call(t, stk) ==
  /\ state' = [state EXCEPT !.isLoading = TRUE]
  /\ Suspend(t, stk, Frame("createPaymentIntent", "await_http", Null))
  /\ UNCHANGED <<terminal, sdk>>

\* a success path that does not keep the intent
createPaymentIntent_forget(s, data) == s

\* this.state.lastPaymentIntent = result.data
createPaymentIntent_store(s, data) == [s EXCEPT !.lastPaymentIntent = data]

\* createPaymentIntent(amount), after the backend answered with resp
createPaymentIntent_answered(t, resp) ==
  /\ At(t, "createPaymentIntent", "await_http")
  /\ LET result == createPaymentIntent(resp) IN
       IF ~result.ok
       THEN /\ state' = finallyNotLoading(state)
            /\ Settle(t, Below(t),
                      Failure("createPaymentIntent", "PAYMENT_INTENT_FAILED", result.msg))
       ELSE /\ state' = finallyNotLoading(createPaymentIntent_store(state, result.data))
            /\ Settle(t, Below(t), Success("createPaymentIntent", result.data))
  /\ UNCHANGED <<terminal, sdk, timedOut, flow, api, race, countdown, keypad>>

createPaymentIntent_http(t) ==
  \E resp \in IntentResponses : createPaymentIntent_answered(t, resp)

---------------------------------------------------------------------------
\* collectPaymentMethod(clientSecret, timeoutMs), from the call to
\* `await this.terminal.collectPaymentMethod(clientSecret)`; timeoutMs is not read
collectPaymentMethod_call(t, stk) ==
  /\ UNCHANGED <<state, terminal>>
  /\ timedOut' = [timedOut EXCEPT ![t] = FALSE]
  /\ IF terminal = Null
     THEN /\ Settle(t, stk, Thrown("collectPaymentMethod", "PAYMENT_COLLECTION_FAILED",
                                   "Terminal is not initialized"))
          /\ UNCHANGED sdk
     ELSE /\ Suspend(t, stk, Frame("collectPaymentMethod", "await_sdk", Null))
          /\ sdk' = [sdk EXCEPT !.cancels = 0]

\* collectPaymentMethod, after the SDK's collection settled
collectPaymentMethod_sdk(t) ==
  /\ At(t, "collectPaymentMethod", "await_sdk")
  /\ \/ \* resolved with {paymentIntent}
        /\ Settle(t, Below(t), Success("collectPaymentMethod", PI))
        /\ UNCHANGED state
     \/ \* resolved with {error}: collectResult.paymentIntent is undefined
        /\ Settle(t, Below(t), Success("collectPaymentMethod", Undefined))
        /\ UNCHANGED state
     \/ \* rejected
        /\ state' = [state EXCEPT !.lastError = MsgSdk]
        /\ Settle(t, Below(t),
                  Failure("collectPaymentMethod", "PAYMENT_COLLECTION_FAILED", MsgSdk))
  /\ UNCHANGED <<terminal, sdk, timedOut, flow, api, race, countdown, keypad>>

\* config.timeoutMs (60 s) pass while the collection of t is awaiting the SDK;
\* timedOut[t] stays until the caller has taken the collection's outcome
TimeoutElapses(t) ==
  /\ At(t, "collectPaymentMethod", "await_sdk")
  /\ ~timedOut[t]
  /\ timedOut' = [timedOut EXCEPT ![t] = TRUE]
  /\ UNCHANGED <<state, terminal, sdk, stack, ret, flow, api, race, countdown, keypad>>

---------------------------------------------------------------------------
\* a catch block of processPayment that lets the error through
processPayment_rethrow(t, stk, msg) ==
  /\ state' = finallyNotLoading([state EXCEPT !.lastError = msg])
  /\ Settle(t, stk, Thrown("processPayment", "PAYMENT_PROCESSING_FAILED", msg))

\* the catch and finally of processPayment: lastError, a failure Result, isLoading = false
processPayment_fail(t, stk, msg) ==
  /\ state' = finallyNotLoading([state EXCEPT !.lastError = msg])
  /\ Settle(t, stk, Failure("processPayment", "PAYMENT_PROCESSING_FAILED", msg))

\* processPayment(paymentIntent), from the call to `await this.terminal.processPayment`
processPayment_call(t, stk, paymentIntent) ==
  /\ UNCHANGED <<terminal, sdk>>
  /\ IF paymentIntent = Undefined \/ terminal = Null
     THEN \* paymentIntent.id of undefined, or this.terminal.processPayment of null
          processPayment_fail(t, stk, MsgTypeError)
     ELSE /\ state' = [state EXCEPT !.isLoading = TRUE]
          /\ Suspend(t, stk, Frame("processPayment", "await_sdk", Null))

\* processPayment, after the SDK's processing settled
\* how the SDK's processPayment promise can settle
SdkProcessOutcomes == { "paymentIntent", "error", "rejected" }

\* processPayment, after the SDK's processing settled with outcome o
processPayment_settled(t, o) ==
  /\ At(t, "processPayment", "await_sdk")
  /\ IF o = "paymentIntent"
     THEN \* resolved with {paymentIntent}
          /\ state' = finallyNotLoading(state)
          /\ Settle(t, Below(t), Success("processPayment", PI))
     ELSE \* resolved with {error}: thrown as TerminalError and caught; or rejected: caught
          processPayment_fail(t, Below(t), MsgSdk)
  /\ UNCHANGED <<terminal, sdk, timedOut, flow, api, race, countdown, keypad>>

processPayment_sdk(t) == \E o \in SdkProcessOutcomes : processPayment_settled(t, o)

---------------------------------------------------------------------------
\* cancelPaymentCollection() as the cancellation document gives it, from the call
\* to `await this._terminal.cancelCollectPaymentMethod()`
cancelPaymentCollection_call(t, stk) ==
  /\ UNCHANGED <<state, terminal>>
  /\ IF terminal = Null
     THEN /\ Settle(t, stk, Success("cancelPaymentCollection", "false"))
          /\ UNCHANGED sdk
     ELSE /\ sdk.cancels < MaxSdkCancels
          /\ sdk' = [sdk EXCEPT !.cancels = @ + 1]
          /\ Suspend(t, stk, Frame("cancelPaymentCollection", "await_sdk", Null))

\* cancelPaymentCollection, after the SDK's cancel command settled
cancelPaymentCollection_sdk(t) ==
  /\ At(t, "cancelPaymentCollection", "await_sdk")
  /\ \/ Settle(t, Below(t), Success("cancelPaymentCollection", "true"))
     \/ Settle(t, Below(t), Success("cancelPaymentCollection", "false"))
  /\ UNCHANGED <<state, terminal, sdk, timedOut, flow, api, race, countdown, keypad>>

(***************************************************************************)
(* Callers of the service: each task calls one operation at a time and     *)
(* awaits it, as handleConnect and the useTerminal wrappers do.            *)
(***************************************************************************)
\* the deepest nesting: handlePayment > autoConnect > connectAndInitializeReader > one operation
MaxDepth == 4

Caller == Frame("caller", "await", Null)
Idle(t) == stack[t] = <<>>

Call_initialize(t) ==
  Idle(t) /\ initialize_call(t, <<Caller>>) /\ UNCHANGED <<timedOut, flow, api, race, countdown, keypad>>

Call_discoverReaders(t) ==
  Idle(t) /\ discoverReaders_call(t, <<Caller>>) /\ UNCHANGED <<timedOut, flow, api, race, countdown, keypad>>

\* handleConnect passes data[0], which is undefined for an empty list
Call_connectReader(t) ==
  /\ Idle(t)
  /\ \E reader \in Readers \cup {Undefined} : connectReader_call(t, <<Caller>>, reader)
  /\ UNCHANGED <<timedOut, flow, api, race, countdown, keypad>>

Call_disconnect(t) ==
  Idle(t) /\ disconnect_call(t, <<Caller>>) /\ UNCHANGED <<timedOut, flow, api, race, countdown, keypad>>

Call_connectAndInitializeReader(t) ==
  Idle(t) /\ connectAndInitializeReader_call(t, <<Caller>>) /\ UNCHANGED <<timedOut, flow, api, race, countdown, keypad>>

Call_createPaymentIntent(t) ==
  Idle(t) /\ createPaymentIntent_call(t, <<Caller>>) /\ UNCHANGED <<timedOut, flow, api, race, countdown, keypad>>

Call_collectPaymentMethod(t) ==
  Idle(t) /\ collectPaymentMethod_call(t, <<Caller>>) /\ UNCHANGED <<flow, api, race, countdown, keypad>>

Call_processPayment(t) ==
  /\ Idle(t)
  /\ \E paymentIntent \in {PI, Undefined} : processPayment_call(t, <<Caller>>, paymentIntent)
  /\ UNCHANGED <<timedOut, flow, api, race, countdown, keypad>>

\* the caller's await resumes with the outcome
Returned(t) ==
  /\ Awaited(t, "caller", "await")
  /\ stack' = [stack EXCEPT ![t] = <<>>]
  /\ ret' = [ret EXCEPT ![t] = NoRet]
  /\ timedOut' = [timedOut EXCEPT ![t] = FALSE]
  /\ UNCHANGED <<state, terminal, sdk, flow, api, race, countdown, keypad>>

(***************************************************************************)
(* withTimeout (terminal-service.ts 285-292, stripeTerminal.ts 351-365)    *)
(* and StripeTerminalService.collectPaymentMethod, which races the SDK's   *)
(* collection against it.  One race at a time: `inner` is the wrapped      *)
(* promise, `outer` the promise withTimeout returns, `first` which of the  *)
(* two events came first and `settles` how often `outer` changed state.    *)
(***************************************************************************)
InitRace ==
  [ user |-> "none", variant |-> "none", pc |-> "idle",
    inner |-> "pending", timer |-> "none", outer |-> "pending",
    first |-> "none", settles |-> 0, timeoutError |-> Null,
    timeoutMs |-> 0, elapsed |-> 0,
    caught |-> "none", cancels |-> 0, cancel |-> "none", result |-> NoRet ]

\* how the wrapped promise can settle: the SDK resolves with {paymentIntent},
\* resolves with {error}, or rejects
InnerOutcomes == { "resolved_intent", "resolved_error", "rejected" }

\* a promise whose resolve and reject would settle it again
PromiseOverwrite(p, outcome) == outcome

\* resolve / reject of `new Promise((resolve, reject) => ...)`: the first call
\* settles the promise, later calls do nothing
PromiseSettle(p, outcome) == IF p = "pending" THEN outcome ELSE p

\* clearTimeout(timeoutId): a timer that has not fired never will
clearTimeout(timer) == IF timer = "armed" THEN "cleared" ELSE timer

\* an event of the race reaches resolve or reject of the outer promise
RaceEvent(r, outcome) ==
  LET out == PromiseSettle(r.outer, outcome)
  IN [r EXCEPT !.outer = out,
               !.settles = IF out # r.outer THEN @ + 1 ELSE @,
               !.first = IF @ = "none" THEN outcome ELSE @]

\* withTimeout(promise, timeoutMs, timeoutError): the timer is set, the wrapped
\* promise is chained to resolve and reject
withTimeout(r, variant, timeoutMs, timeoutError) ==
  [r EXCEPT !.variant = variant, !.inner = "pending", !.timer = "armed",
            !.outer = "pending", !.first = "none", !.settles = 0,
            !.timeoutMs = timeoutMs, !.elapsed = 0,
            !.timeoutError = IF timeoutError = Undefined THEN "Operation timed out"
                                                         ELSE timeoutError]

\* what an await of the outer promise gets
RaceOutcome(r, fn, outcome) ==
  CASE outcome = "resolved_intent" -> Success(fn, PI)
    [] outcome = "resolved_error" -> Success(fn, Undefined)
    [] outcome = "timeout" -> Thrown(fn, "Error", r.timeoutError)
    [] OTHER -> Thrown(fn, "Error", MsgSdk)

\* a caller awaits withTimeout(promise, timeoutMs, timeoutError?)
Call_withTimeout ==
  /\ race.pc \in {"idle", "done"}
  /\ \E variant \in { "terminal-service", "stripeTerminal" } : \E timeoutMs \in 1..MaxTimeoutTicks :
       \E timeoutError \in {Undefined, "custom timeout error"} :
         race' = [withTimeout(InitRace, variant, timeoutMs, timeoutError) EXCEPT
                    !.user = "withTimeout", !.pc = "await_race"]
  /\ UNCHANGED <<state, terminal, sdk, stack, ret, timedOut, flow, api, countdown, keypad>>

\* the wrapped promise settles: then(resolve) / catch(reject) run, and the
\* finally callback clears the timer, all before any timer callback can run
InnerSettles ==
  /\ race.timer # "none"
  /\ race.inner = "pending"
  /\ \E o \in InnerOutcomes :
       race' = [RaceEvent(race, o) EXCEPT !.inner = o, !.timer = clearTimeout(@)]
  /\ UNCHANGED <<state, terminal, sdk, stack, ret, timedOut, flow, api, countdown, keypad>>

\* time passes on the timer of setTimeout
RaceTick ==
  /\ race.timer = "armed"
  /\ race.elapsed < race.timeoutMs
  /\ race' = [race EXCEPT !.elapsed = @ + 1]
  /\ UNCHANGED <<state, terminal, sdk, stack, ret, timedOut, flow, api, countdown, keypad>>

\* timeoutMs have passed: setTimeout's callback calls reject(error)
TimerFires ==
  /\ race.timer = "armed"
  /\ race.elapsed = race.timeoutMs
  /\ race' = [RaceEvent(race, "timeout") EXCEPT !.timer = "fired"]
  /\ UNCHANGED <<state, terminal, sdk, stack, ret, timedOut, flow, api, countdown, keypad>>

\* the caller's await of the outer promise resumes
withTimeout_awaited ==
  /\ race.user = "withTimeout"
  /\ race.pc = "await_race"
  /\ race.outer # "pending"
  /\ race' = [race EXCEPT !.pc = "done",
                          !.result = RaceOutcome(race, "withTimeout", race.outer)]
  /\ UNCHANGED <<state, terminal, sdk, stack, ret, timedOut, flow, api, countdown, keypad>>

---------------------------------------------------------------------------
\* StripeTerminalService.collectPaymentMethod(clientSecret, timeoutMs), from the
\* call to `await this.withTimeout(this.terminal.collectPaymentMethod(...), ...)`
stripe_collectPaymentMethod_call ==
  /\ race.pc \in {"idle", "done"}
  /\ \E term \in {Null, Handle} : \E timeoutMs \in 1..MaxTimeoutTicks :
       race' = IF term = Null
               THEN [InitRace EXCEPT
                       !.user = "collectPaymentMethod", !.pc = "done",
                       !.result = Thrown("collectPaymentMethod", "Error",
                                         "Terminal is not initialized")]
               ELSE [withTimeout(InitRace, "stripeTerminal", timeoutMs,
                                 "Payment collection timed out")
                       EXCEPT !.user = "collectPaymentMethod", !.pc = "await_race"]
  /\ UNCHANGED <<state, terminal, sdk, stack, ret, timedOut, flow, api, countdown, keypad>>

\* an inner catch that lets the error of the cancel command through
cancelErrorPropagates(caught, c) == IF c = "rejected" THEN "cancel_failed" ELSE caught

\* try { await cancelCollectPaymentMethod() } catch (cancelError) { console.warn(...) }
\* throw error: the error thrown on is the one caught from the race
cancelErrorSwallowed(caught, c) == caught

\* ... after the race settled: return result.paymentIntent, or catch the error
\* and `await this.terminal.cancelCollectPaymentMethod()`
stripe_collectPaymentMethod_raced ==
  /\ race.user = "collectPaymentMethod"
  /\ race.pc = "await_race"
  /\ race.outer # "pending"
  /\ IF race.outer \in {"resolved_intent", "resolved_error"}
     THEN race' = [race EXCEPT !.pc = "done",
                               !.result = RaceOutcome(race, "collectPaymentMethod", race.outer)]
     ELSE \/ \* the cancel command is sent and awaited
             race' = [race EXCEPT !.caught = race.outer, !.cancels = @ + 1,
                                  !.cancel = "pending", !.pc = "await_cancel"]
          \/ \* the cancel call throws at once: logged, and the caught error is rethrown
             race' = [race EXCEPT !.caught = race.outer, !.cancels = @ + 1,
                                  !.cancel = "rejected", !.pc = "done",
                                  !.result = RaceOutcome(race, "collectPaymentMethod",
                                               cancelErrorSwallowed(race.outer, "rejected"))]
  /\ UNCHANGED <<state, terminal, sdk, stack, ret, timedOut, flow, api, countdown, keypad>>

\* ... after the cancel command settled: its error, if any, is logged; `throw error`
stripe_collectPaymentMethod_cancelled ==
  /\ race.pc = "await_cancel"
  /\ \E c \in {"resolved", "rejected"} :
       race' = [race EXCEPT !.cancel = c, !.pc = "done",
                            !.result = RaceOutcome(race, "collectPaymentMethod",
                                                   cancelErrorSwallowed(race.caught, c))]
  /\ UNCHANGED <<state, terminal, sdk, stack, ret, timedOut, flow, api, countdown, keypad>>

NextRace ==
  \/ Call_withTimeout
  \/ stripe_collectPaymentMethod_call
  \/ InnerSettles
  \/ RaceTick
  \/ TimerFires
  \/ withTimeout_awaited
  \/ stripe_collectPaymentMethod_raced
  \/ stripe_collectPaymentMethod_cancelled

(***************************************************************************)
(* The service under concurrent callers                                    *)
(***************************************************************************)
InitFlow ==
  [ mounted |-> FALSE, isProcessing |-> FALSE, amount |-> "0",
    countdownModal |-> Null, paymentCancelled |-> FALSE, paymentCollected |-> FALSE,
    collectData |-> Undefined, processInvoked |-> FALSE, outcome |-> "none",
    cancelInFlight |-> FALSE, steps |-> <<>> ]
InitApi == [ phase |-> "idle", method |-> "none", amount |-> 0, posted |-> 0,
             waited |-> 0, resp |-> Rejected("none"), result |-> NoRet ]

Init ==
  /\ state = InitState
  /\ terminal = Null
  /\ sdk = [reader |-> Null, cancels |-> 0]
  /\ stack = [t \in Tasks |-> <<>>]
  /\ ret = [t \in Tasks |-> NoRet]
  /\ timedOut = [t \in Tasks |-> FALSE]
  /\ flow = InitFlow
  /\ api = InitApi
  /\ countdown = [ phase |-> "none", isOpen |-> FALSE, timeOut |-> 0, timeRemaining |-> 0,
                   timerInterval |-> Null, watched |-> FALSE, emitted |-> <<>> ]
  /\ keypad = <<"0">>
  /\ race = InitRace

\* a step of the service itself: an await of one of its operations resumes
ServiceStep(t) ==
  \/ initialize_resume(t)
  \/ discoverReaders_location(t)
  \/ discoverReaders_sdk(t)
  \/ connectReader_sdk(t)
  \/ disconnect_resume(t)
  \/ disconnect_sdk(t)
  \/ connectAndInitializeReader_init(t)
  \/ connectAndInitializeReader_sleep(t)
  \/ connectAndInitializeReader_disconnected(t)
  \/ connectAndInitializeReader_discovered(t)
  \/ connectAndInitializeReader_connected(t)
  \/ createPaymentIntent_http(t)
  \/ collectPaymentMethod_sdk(t)
  \/ processPayment_sdk(t)

\* a step of caller t: it calls an operation, an await resumes, or it takes the outcome
CallerStep(t) ==
  \/ Call_initialize(t)
  \/ Call_discoverReaders(t)
  \/ Call_connectReader(t)
  \/ Call_disconnect(t)
  \/ Call_connectAndInitializeReader(t)
  \/ Call_createPaymentIntent(t)
  \/ Call_collectPaymentMethod(t)
  \/ Call_processPayment(t)
  \/ Returned(t)
  \/ ServiceStep(t)

Next ==
  \/ \E t \in 1..NumCallers : CallerStep(t)
  \/ onUnexpectedReaderDisconnect

Spec == Init /\ [][Next]_vars

\* the service under one caller, which awaits each operation before the next
SoloNext ==
  \/ CallerStep(1)
  \/ onUnexpectedReaderDisconnect

SoloSpec == Init /\ [][SoloNext]_vars

\* withTimeout and the collection built on it, alone
RaceSpec == Init /\ [][NextRace]_vars

(***************************************************************************)
(* The ApiClient alone: one request at a time, any backend answer          *)
(***************************************************************************)
\* a method is called: the request is posted
ApiCall ==
  /\ api.phase \in {"idle", "done"}
  /\ \E method \in { "getConnectionToken", "getLocationId", "createPaymentIntent" } :
       \* amounts in thousandths: every one up to the bound, and 19.999
       \E amount \in IF method = "createPaymentIntent"
                      THEN (0..MaxAmountMilli) \cup {19999} ELSE {0} :
         api' = [ phase |-> "pending", method |-> method, amount |-> amount,
                  posted |-> IF method = "createPaymentIntent" THEN amountInCents(amount) ELSE 0,
                  waited |-> 0, resp |-> Rejected("none"), result |-> NoRet ]
  /\ UNCHANGED <<state, terminal, sdk, stack, ret, timedOut, flow, race, countdown, keypad>>

\* the backend answers (or the transport fails) before axios gives up, and the
\* method returns
ApiSettle ==
  /\ api.phase = "pending"
  /\ \E resp \in ResponsesOf(api.method) \ {Rejected("timeout")} :
       api' = [api EXCEPT !.phase = "done", !.resp = resp,
                          !.result = ApiApply(api.method, resp)]
  /\ UNCHANGED <<state, terminal, sdk, stack, ret, timedOut, flow, race, countdown, keypad>>

\* time passes while the request is pending, up to the moment axios gives up
ApiTick ==
  /\ api.phase = "pending"
  /\ api.waited < axiosTimeout(DEFAULT_CONFIG)
  /\ api' = [api EXCEPT !.waited = IF @ + HttpTickMs < axiosTimeout(DEFAULT_CONFIG)
                                    THEN @ + HttpTickMs
                                    ELSE axiosTimeout(DEFAULT_CONFIG)]
  /\ UNCHANGED <<state, terminal, sdk, stack, ret, timedOut, flow, race, countdown, keypad>>

\* the request has been pending for the timeout given to axios.create: axios
\* rejects it, and the method returns what its catch block makes of that
ApiTimeout ==
  /\ api.phase = "pending"
  /\ api.waited = axiosTimeout(DEFAULT_CONFIG)
  /\ api' = [api EXCEPT !.phase = "done", !.resp = Rejected("timeout"),
                        !.result = ApiApply(api.method, Rejected("timeout"))]
  /\ UNCHANGED <<state, terminal, sdk, stack, ret, timedOut, flow, race, countdown, keypad>>

NextApi == ApiCall \/ ApiSettle \/ ApiTick \/ ApiTimeout

ApiSpec == Init /\ [][NextApi]_vars

\* the clock runs and axios's timer fires; the backend need never answer
FairApiSpec == ApiSpec /\ WF_vars(ApiTick) /\ WF_vars(ApiTimeout)

(***************************************************************************)
(* HomePage.vue: the payment flow.  `isConnected` of useTerminal is read   *)
(* as the service's state.isConnected; the locals of handlePayment         *)
(* (paymentCancelled, paymentCollected, countdownModal) live in `flow`,    *)
(* one attempt at a time.  outcome, processInvoked and cancelInFlight      *)
(* record what the attempt showed and did, and steps lists, while the      *)
(* attempt runs, the service calls it made and what they returned.         *)
(***************************************************************************)
HP == "handlePayment"

\* modal.dismiss(): the modal starts to leave the screen
StartDismiss(f) ==
  IF f.countdownModal \in {"created", "presented"}
  THEN [f EXCEPT !.countdownModal = "dismissing"]
  ELSE f

\* countdownModal.onDidDismiss().then(() => { if (!paymentCollected) paymentCancelled = true })
ModalDidDismiss ==
  /\ flow.countdownModal = "dismissing"
  /\ flow' = [flow EXCEPT !.countdownModal = "dismissed",
                          !.paymentCancelled = @ \/ ~flow.paymentCollected]
  /\ UNCHANGED <<state, terminal, sdk, stack, ret, timedOut, api, race, countdown, keypad>>

\* the user taps the backdrop of the countdown modal
BackdropDismiss ==
  /\ flow.countdownModal = "presented"
  /\ flow' = StartDismiss(flow)
  /\ UNCHANGED <<state, terminal, sdk, stack, ret, timedOut, api, race, countdown, keypad>>

\* the user types an amount on the keypad
KeyPress ==
  /\ flow.amount = "0"
  /\ flow' = [flow EXCEPT !.amount = "x"]
  /\ UNCHANGED <<state, terminal, sdk, stack, ret, timedOut, api, race, countdown, keypad>>

\* the running attempt made the service call, or got the return, named s
Step(f, s) == [f EXCEPT !.steps = Append(@, s)]

\* the task's handler is over
Finished(t) ==
  /\ stack' = [stack EXCEPT ![t] = <<>>]
  /\ ret' = [ret EXCEPT ![t] = NoRet]

\* a handlePayment without its finally block
handlePayment_noFinally(f) ==
  /\ flow' = [f EXCEPT !.steps = <<>>]
  /\ Finished(PayTask)

\* finally { if (countdownModal) await countdownModal.dismiss(); amount = '0'; isProcessing = false }
handlePayment_finally(f) ==
  IF f.countdownModal # Null
  THEN /\ flow' = StartDismiss(f)
       /\ Suspend(PayTask, <<>>, Frame(HP, "finally_dismiss", Null))
  ELSE /\ flow' = [f EXCEPT !.amount = "0", !.isProcessing = FALSE, !.steps = <<>>]
       /\ Finished(PayTask)

\* catch (error): a message with 'cancelled' or 'canceled' shows nothing, any other
\* one shows the error toast and modal; then the finally block
handlePayment_catch(wasCancelled, f) ==
  IF wasCancelled
  THEN handlePayment_finally([f EXCEPT !.outcome = "cancelled"])
  ELSE /\ flow' = [f EXCEPT !.outcome = "error"]
       /\ Suspend(PayTask, <<>>, Frame(HP, "catch_ui", Null))

\* useTerminal.autoConnect(), after connectAndInitializeReader settled: never rejects
autoConnect_resume(t) ==
  /\ Awaited(t, "autoConnect", "await_connect")
  /\ Settle(t, Below(t), Success("autoConnect", Undefined))
  /\ UNCHANGED <<state, terminal, sdk, timedOut, flow, api, race, countdown, keypad>>

\* onMounted(async () => { await autoConnect() })
onMounted_call ==
  /\ ~flow.mounted
  /\ Idle(MountTask)
  /\ flow' = [flow EXCEPT !.mounted = TRUE]
  /\ connectAndInitializeReader_call(MountTask,
        << Frame("onMounted", "await_autoConnect", Null),
           Frame("autoConnect", "await_connect", Null) >>)
  /\ UNCHANGED <<timedOut, api, race, countdown, keypad>>

onMounted_resume ==
  /\ Awaited(MountTask, "onMounted", "await_autoConnect")
  /\ Finished(MountTask)
  /\ UNCHANGED <<state, terminal, sdk, timedOut, flow, api, race, countdown, keypad>>

---------------------------------------------------------------------------
\* the locals of a new attempt
NewAttempt(f) ==
  [f EXCEPT !.isProcessing = TRUE, !.countdownModal = Null, !.paymentCancelled = FALSE,
            !.paymentCollected = FALSE, !.collectData = Undefined,
            !.processInvoked = FALSE, !.outcome = "none", !.cancelInFlight = FALSE,
            !.steps = <<>>]

\* handlePayment(), from the tap on Pay to its first await
handlePayment_call ==
  /\ Idle(PayTask)
  /\ Idle(CancelTask)
  /\ flow' = NewAttempt(flow)
  /\ IF ~state.isConnected
     THEN connectAndInitializeReader_call(PayTask,
             << Frame(HP, "await_autoConnect", Null),
                Frame("autoConnect", "await_connect", Null) >>)
     ELSE createPaymentIntent_call(PayTask, << Frame(HP, "await_intent", Null) >>)
  /\ UNCHANGED <<timedOut, api, race, countdown, keypad>>

\* ... after `await autoConnect()`: wait 500 ms
handlePayment_autoConnected ==
  /\ Awaited(PayTask, HP, "await_autoConnect")
  /\ Suspend(PayTask, <<>>, Frame(HP, "stabilize", Null))
  /\ UNCHANGED <<state, terminal, sdk, timedOut, flow, api, race, countdown, keypad>>

\* ... after the 500 ms: still not connected shows the toast, else create the intent
handlePayment_stabilized ==
  /\ At(PayTask, HP, "stabilize")
  /\ IF ~state.isConnected
     THEN /\ Suspend(PayTask, <<>>, Frame(HP, "await_toast", Null))
          /\ UNCHANGED <<state, terminal, sdk>>
     ELSE createPaymentIntent_call(PayTask, << Frame(HP, "await_intent", Null) >>)
  /\ UNCHANGED <<timedOut, flow, api, race, countdown, keypad>>

\* ... after the 'Failed to connect to reader' toast: isProcessing = false; return
handlePayment_connectFailed ==
  /\ At(PayTask, HP, "await_toast")
  /\ flow' = [flow EXCEPT !.isProcessing = FALSE, !.outcome = "connect_failed"]
  /\ Finished(PayTask)
  /\ UNCHANGED <<state, terminal, sdk, timedOut, api, race, countdown, keypad>>

\* ... after `await createPaymentIntent(...)`
handlePayment_intent ==
  /\ Awaited(PayTask, HP, "await_intent")
  /\ IF ~ret[PayTask].ok
     THEN handlePayment_catch(FALSE, Step(flow, "intent_failed"))
     ELSE /\ Suspend(PayTask, <<>>, Frame(HP, "await_modal", Null))
          /\ flow' = Step(flow, "intent_ok")
  /\ UNCHANGED <<state, terminal, sdk, timedOut, api, race, countdown, keypad>>

\* ... after `await modalController.create(...)`: onDidDismiss is hooked, present() called
handlePayment_modal ==
  /\ At(PayTask, HP, "await_modal")
  /\ flow' = [flow EXCEPT !.countdownModal = "presented"]
  /\ Suspend(PayTask, <<>>, Frame(HP, "await_present", Null))
  /\ UNCHANGED <<state, terminal, sdk, timedOut, api, race, countdown, keypad>>

\* ... after `await countdownModal.present()`: collectPaymentMethod(client_secret)
handlePayment_presented ==
  /\ At(PayTask, HP, "await_present")
  /\ collectPaymentMethod_call(PayTask, << Frame(HP, "await_collect", Null) >>)
  /\ flow' = Step(flow, "collect_called")
  /\ UNCHANGED <<api, race, countdown, keypad>>

\* a check of the collect result that never throws
handlePayment_collectIgnored(r) == FALSE

\* if (!collectResult.success) throw new Error(collectResult.error.message)
handlePayment_collectFailed(r) == ~r.ok

\* ... after `await collectPaymentMethod(...)`
handlePayment_collected ==
  /\ Awaited(PayTask, HP, "await_collect")
  /\ IF ret[PayTask].kind = "throw"
     THEN handlePayment_catch(FALSE, Step(flow, "collect_failed"))
     ELSE IF handlePayment_collectFailed(ret[PayTask])
     THEN \* the SDK's message decides
          \E wasCancelled \in BOOLEAN :
             handlePayment_catch(wasCancelled, Step(flow, "collect_failed"))
     ELSE /\ flow' = StartDismiss([Step(flow, IF ret[PayTask].ok THEN "collect_ok"
                                                                   ELSE "collect_failed")
                                     EXCEPT
                                     !.paymentCollected = TRUE,
                                     !.collectData = ret[PayTask].data])
          /\ Suspend(PayTask, <<>>, Frame(HP, "await_dismiss", Null))
  /\ timedOut' = [timedOut EXCEPT ![PayTask] = FALSE]
  /\ UNCHANGED <<state, terminal, sdk, api, race, countdown, keypad>>

\* the cancellation check left out
handlePayment_unchecked(f) == FALSE

\* if (paymentCancelled) throw new Error('Payment was cancelled')
handlePayment_checkCancelled(f) == f.paymentCancelled

\* ... after `await countdownModal.dismiss()`: the cancellation check, then processPayment
handlePayment_dismissed ==
  /\ At(PayTask, HP, "await_dismiss")
  /\ flow.countdownModal = "dismissed"
  /\ IF handlePayment_checkCancelled(flow)
     THEN /\ handlePayment_catch(TRUE, flow)
          /\ UNCHANGED <<state, terminal, sdk>>
     ELSE /\ flow' = [Step(flow, "process_called") EXCEPT !.processInvoked = TRUE]
          /\ processPayment_call(PayTask, << Frame(HP, "await_process", Null) >>,
                                 flow.collectData)
  /\ UNCHANGED <<timedOut, api, race, countdown, keypad>>

\* ... after `await processPayment(...)`
handlePayment_processed ==
  /\ Awaited(PayTask, HP, "await_process")
  /\ IF ~ret[PayTask].ok
     THEN \E wasCancelled \in BOOLEAN :
             handlePayment_catch(wasCancelled, Step(flow, "process_failed"))
     ELSE /\ flow' = [Step(flow, "process_ok") EXCEPT !.outcome = "success"]
          /\ Suspend(PayTask, <<>>, Frame(HP, "result_ui", Null))
  /\ UNCHANGED <<state, terminal, sdk, timedOut, api, race, countdown, keypad>>

\* ... after the success modal and toast, or the error toast and modal
handlePayment_shown ==
  /\ \/ At(PayTask, HP, "result_ui")
     \/ At(PayTask, HP, "catch_ui")
  /\ handlePayment_finally(flow)
  /\ UNCHANGED <<state, terminal, sdk, timedOut, api, race, countdown, keypad>>

\* ... after the finally block's `await countdownModal.dismiss()`
handlePayment_end ==
  /\ At(PayTask, HP, "finally_dismiss")
  /\ flow.countdownModal = "dismissed"
  /\ flow' = [flow EXCEPT !.amount = "0", !.isProcessing = FALSE, !.steps = <<>>]
  /\ Finished(PayTask)
  /\ UNCHANGED <<state, terminal, sdk, timedOut, api, race, countdown, keypad>>

---------------------------------------------------------------------------
\* cancelHandler(), from the tap on Cancel to `await terminalService.cancelPaymentCollection()`
cancelHandler_call ==
  /\ flow.countdownModal = "presented"
  /\ Idle(CancelTask)
  /\ flow' = [flow EXCEPT
                !.paymentCancelled = TRUE,   \* set before the handler's first await
                !.cancelInFlight = @ \/ At(PayTask, "collectPaymentMethod", "await_sdk")]
  /\ \/ cancelPaymentCollection_call(CancelTask,
                                      << Frame("cancelHandler", "await_cancel", Null) >>)
     \/ \* terminal-service.ts defines no cancelPaymentCollection: the call is a
        \* TypeError, which the handler's catch logs
        /\ Finished(CancelTask)
        /\ UNCHANGED <<state, terminal, sdk>>
  /\ UNCHANGED <<timedOut, api, race, countdown, keypad>>

\* ... after the cancel command settled: the 'Payment cancelled' toast
cancelHandler_cancelled ==
  /\ Awaited(CancelTask, "cancelHandler", "await_cancel")
  /\ Suspend(CancelTask, <<>>, Frame("cancelHandler", "await_toast", Null))
  /\ UNCHANGED <<state, terminal, sdk, timedOut, flow, api, race, countdown, keypad>>

\* ... after the toast: setTimeout(() => countdownModal.dismiss(), 0)
cancelHandler_toast ==
  /\ At(CancelTask, "cancelHandler", "await_toast")
  /\ Suspend(CancelTask, <<>>, Frame("cancelHandler", "timer", Null))
  /\ UNCHANGED <<state, terminal, sdk, timedOut, flow, api, race, countdown, keypad>>

\* the timer fires: if (countdownModal) countdownModal.dismiss()
cancelHandler_timer ==
  /\ At(CancelTask, "cancelHandler", "timer")
  /\ flow' = StartDismiss(flow)
  /\ Finished(CancelTask)
  /\ UNCHANGED <<state, terminal, sdk, timedOut, api, race, countdown, keypad>>

---------------------------------------------------------------------------
\* the steps the page and the service take by themselves, the settling of
\* the SDK's collectPaymentMethod excepted
FlowProgress ==
  \/ onMounted_resume
  \/ handlePayment_autoConnected
  \/ handlePayment_stabilized
  \/ handlePayment_connectFailed
  \/ handlePayment_intent
  \/ handlePayment_modal
  \/ handlePayment_presented
  \/ handlePayment_collected
  \/ handlePayment_dismissed
  \/ handlePayment_processed
  \/ handlePayment_shown
  \/ handlePayment_end
  \/ cancelHandler_cancelled
  \/ cancelHandler_toast
  \/ cancelHandler_timer
  \/ cancelPaymentCollection_sdk(CancelTask)
  \/ ModalDidDismiss
  \/ \E t \in {MountTask, PayTask} :
       \/ autoConnect_resume(t)
       \/ initialize_resume(t)
       \/ discoverReaders_location(t)
       \/ discoverReaders_sdk(t)
       \/ connectReader_sdk(t)
       \/ disconnect_resume(t)
       \/ disconnect_sdk(t)
       \/ connectAndInitializeReader_init(t)
       \/ connectAndInitializeReader_sleep(t)
       \/ connectAndInitializeReader_disconnected(t)
       \/ connectAndInitializeReader_discovered(t)
       \/ connectAndInitializeReader_connected(t)
       \/ createPaymentIntent_http(t)
       \/ processPayment_sdk(t)

\* what the user, the clock and the device do
FlowEnvironment ==
  \/ onMounted_call
  \/ handlePayment_call
  \/ cancelHandler_call
  \/ BackdropDismiss
  \/ KeyPress
  \/ TimeoutElapses(PayTask)
  \/ collectPaymentMethod_sdk(PayTask)
  \/ onUnexpectedReaderDisconnect

NextFlow == FlowProgress \/ FlowEnvironment

FlowSpec == Init /\ [][NextFlow]_vars

\* every step the program can take by itself is eventually taken; the device
\* need never settle a collection and the user need never tap
FairFlowSpec == Init /\ [][NextFlow]_vars /\ WF_vars(FlowProgress)

(***************************************************************************)
(* Properties                                                              *)
(***************************************************************************)

\* the operations of TerminalService that C7 counts
ControllerOps ==
  { "initialize", "discoverReaders", "connectReader", "disconnect",
    "createPaymentIntent", "collectPaymentMethod", "processPayment" }
ServiceOps == ControllerOps \cup { CAIR }

\* the frames of service operations that have been called and have not settled
InFlight(ops) ==
  { <<t, i>> \in Tasks \X (1..MaxDepth) : i <= Len(stack[t]) /\ stack[t][i].fn \in ops }

\* C1: isConnected = true implies currentReader != null, in every reachable state.
C1_ConnectedHasReader == state.isConnected => state.currentReader # Null

\* C2: when disconnect() returns, isConnected = false and currentReader = null,
\* whether the SDK's disconnectReader succeeded or failed.
C2_DisconnectClears ==
  [][ \A t \in Tasks :
        (ret[t].fn # "disconnect" /\ ret'[t].fn = "disconnect")
          => (~state'.isConnected /\ state'.currentReader = Null) ]_vars

\* C6: whenever no TerminalService operation is in flight, isLoading = false.
C6_IdleNotLoading == (InFlight(ServiceOps) = {}) => ~state.isLoading

\* C6 witness: an operation ended on a failure path (a failure Result or a
\* rejection) and nothing is in flight.
C6_Witness ==
  /\ InFlight(ServiceOps) = {}
  /\ \E t \in Tasks : ret[t].kind = "throw" /\ ret[t].fn = "initialize"
  /\ \E t \in Tasks : ret[t].kind = "value" /\ ~ret[t].ok /\ ret[t].fn = "processPayment"

\* C7: isLoading is true if and only if exactly one controller operation is in flight.
C7_LoadingIffOneInFlight ==
  state.isLoading <=> (Cardinality(InFlight(ControllerOps)) = 1)

\* C8: no TerminalService operation rejects; every failure is a failure Result.
C8_NeverThrows ==
  \A t \in Tasks : ret[t].fn \in ServiceOps => ret[t].kind # "throw"

\* the response carries a non-empty secret, at the top level or under data
HasSecret(resp) ==
  /\ resp.kind = "resolved"
  /\ \/ Truthy(OptGet(resp.body, "secret"))
     \/ Truthy(OptGet(OptGet(resp.body, "data"), "secret"))

C10_SuccessNeedsSecret ==
  (api.phase = "done" /\ api.method = "getConnectionToken") =>
    /\ api.result.ok => HasSecret(api.resp)
    /\ (api.resp.kind = "resolved" /\ ~HasSecret(api.resp))
         => (~api.result.ok /\ api.result.code = "CONNECTION_TOKEN_FAILED")

\* C3: when the user cancels while the collection is in flight and the SDK
\* then resolves the collection successfully, the attempt never invokes
\* processPayment and ends reporting the cancellation, not a success or an error.
C3_CancelWins ==
  (flow.cancelInFlight /\ flow.paymentCollected) =>
     /\ ~flow.processInvoked
     /\ flow.outcome \in {"none", "cancelled"}
     /\ (Idle(PayTask) => flow.outcome = "cancelled")

\* C3 witness: the user cancelled while the collection was in flight, the SDK
\* then resolved it with a payment intent, and the attempt is over
C3_Witness ==
  /\ flow.cancelInFlight
  /\ flow.paymentCollected
  /\ flow.collectData = PI
  /\ Idle(PayTask)
  /\ flow.outcome = "cancelled"

\* C4: when the timeout elapses before the SDK settles the collection,
\* collectPaymentMethod returns a failure with PAYMENT_COLLECTION_FAILED (or the
\* timeout's own code) and exactly one cancel command has been issued to the SDK.
C4_TimeoutFailsAndCancels ==
  \A t \in Tasks :
    (timedOut[t] /\ ret[t].fn = "collectPaymentMethod") =>
       /\ ret[t].kind = "value"
       /\ ~ret[t].ok
       /\ ret[t].code \in {"PAYMENT_COLLECTION_FAILED", "OPERATION_TIMEOUT"}
       /\ sdk.cancels = 1

\* C5: once the user has cancelled during the collection, handlePayment
\* eventually finishes (isProcessing is false again), even if the SDK never
\* settles the collection.
C5_CancelledEventuallyFinishes ==
  (flow.cancelInFlight /\ flow.isProcessing) ~> ~flow.isProcessing

\* C11: when the backend answers the connection-token request with
\* {data: {secret: s}}, s not empty, getConnectionToken returns {success: true, data: s}.
C11_DocumentedShapeSucceeds ==
  (/\ api.phase = "done"
   /\ api.method = "getConnectionToken"
   /\ api.resp = Resolved(JObj("data" :> JObj("secret" :> JStr("tok")))))
  => (api.result.kind = "value" /\ api.result.ok /\ api.result.data = "tok")

\* round-half-up of m/10, for an amount of m thousandths: the minor units of m/1000
RoundHalfUp(m) == (m + 5) \div 10

\* C12: createPaymentIntent(a) posts round-half-up(a * 100) minor units, for every
\* amount a given in thousandths; 19.999 posts 2000.
C12_PostsRoundHalfUp ==
  (api.method = "createPaymentIntent" /\ api.phase # "idle")
  => api.posted = RoundHalfUp(api.amount)

\* C13: when the location endpoint answers with an empty or missing location id,
\* getLocationId returns a failure with code LOCATION_ID_FETCH_FAILED.
C13_MissingLocationFails ==
  (/\ api.phase = "done"
   /\ api.method = "getLocationId"
   /\ api.resp.kind = "resolved"
   /\ ~Truthy(OptGet(OptGet(api.resp.body, "data"), "location_id")))
  => (/\ api.result.kind = "value"
      /\ ~api.result.ok
      /\ api.result.code = "LOCATION_ID_FETCH_FAILED")

\* C14: when discovery yields an empty reader list, connectAndInitializeReader
\* fails with NO_READERS_FOUND, does not invoke the SDK's connect call, and
\* leaves availableReaders = [] and isConnected = false.
C14_NoReadersFails ==
  [][ \A t \in Tasks :
        (/\ Awaited(t, CAIR, "await_discover")
         /\ ret[t].ok
         /\ ret[t].list = <<>>
         /\ stack'[t] # stack[t])
        => (/\ ret'[t].kind = "throw"
            /\ ret'[t].fn = CAIR
            /\ ret'[t].code = "NO_READERS_FOUND"
            /\ \A i \in 1..Len(stack'[t]) : stack'[t][i].fn # "connectReader"
            /\ state'.availableReaders = <<>>
            /\ ~state'.isConnected) ]_vars

\* C15: initialize() called when isInitialized = true is a no-op: it returns at
\* once, builds no second SDK handle and changes no field of the state.
C15_InitializeIdempotent ==
  [][ \A t \in Tasks :
        (Call_initialize(t) /\ state.isInitialized)
        => (/\ state' = state
            /\ terminal' = terminal
            /\ stack'[t] = <<Caller>>
            /\ ret'[t].kind = "value") ]_vars

\* C16: when initialize() fails because constructing the SDK handle throws, on
\* return isInitialized = false and lastError is set (after which a later
\* initialize() may succeed).
C16_FailedInitializeLeavesUninitialized ==
  [][ \A t \in Tasks :
        (Call_initialize(t) /\ ret'[t].kind = "throw")
        => (~state'.isInitialized /\ state'.lastError # Null) ]_vars

\* C17: an unexpected-disconnect event sets isConnected = false and
\* currentReader = null and records a lastError, in whatever state it arrives;
\* isConnected and currentReader end as a completed disconnect() from the same
\* state would leave them.
C17_UnexpectedDisconnectAsDisconnect ==
  [][ onUnexpectedReaderDisconnect
        => (/\ ~state'.isConnected
            /\ state'.currentReader = Null
            /\ state'.lastError # Null
            /\ state'.isConnected = disconnect_done(state).isConnected
            /\ state'.currentReader = disconnect_done(state).currentReader) ]_vars

\* C18: connectReader(r) called while r is the connected reader returns r at once,
\* without the SDK's connect call and without changing the state.
C18_ConnectSameReaderNoop ==
  [][ \A t \in Tasks : \A r \in Readers :
        (/\ Idle(t)
         /\ state.isConnected
         /\ state.currentReader = r
         /\ connectReader_call(t, <<Caller>>, r))
        => (/\ stack'[t] = <<Caller>>
            /\ ret'[t].kind = "value"
            /\ ret'[t].ok
            /\ ret'[t].data = r
            /\ state' = state) ]_vars

\* C19: the SDK's connect call for a reader is never issued while another reader
\* is current: that connection is disconnected first.
C19_DisconnectBeforeConnect ==
  [][ \A t \in Tasks :
        (/\ ~At(t, "connectReader", "await_sdk")
         /\ stack'[t] # <<>>
         /\ stack'[t][Len(stack'[t])].fn = "connectReader"
         /\ stack'[t][Len(stack'[t])].pc = "await_sdk")
        => state.currentReader \in {Null, stack'[t][Len(stack'[t])].rd} ]_vars

\* C20: cancelPaymentCollection() called when no collection is outstanding returns
\* a falsy result and does not throw, whatever the SDK's cancel command does.
\* While handlePayment awaits countdownModal.present() the attempt has started no
\* collection yet, and the Cancel button is already on the screen.
C20_IdleCancelIsFalsy ==
  (/\ At(PayTask, HP, "await_present")
   /\ InFlight({"collectPaymentMethod"}) = {}
   /\ ret[CancelTask].fn = "cancelPaymentCollection")
  => (ret[CancelTask].kind = "value" /\ ret[CancelTask].data = "false")

\* C21: whenever createPaymentIntent, collectPaymentMethod or processPayment
\* contacts the backend or the device SDK (the step that leaves the operation
\* awaiting that request), isConnected = true at that moment.
C21_PaymentOnlyWhenConnected ==
  [][ \A t \in Tasks :
        (/\ Len(stack'[t]) > Len(stack[t])
         /\ stack'[t][Len(stack'[t])].fn \in
              { "createPaymentIntent", "collectPaymentMethod", "processPayment" })
        => state.isConnected ]_vars

\* C22: when the SDK's collection settles, collectPaymentMethod returns either a
\* failure with PAYMENT_COLLECTION_FAILED (the SDK rejected, or resolved with an
\* error field) or a success carrying a defined PaymentIntent.
C22_CollectErrorsAreFailures ==
  [][ \A t \in Tasks :
        collectPaymentMethod_sdk(t)
        => (/\ ret'[t].kind = "value"
            /\ ret'[t].ok => ret'[t].data # Undefined
            /\ ~ret'[t].ok => ret'[t].code = "PAYMENT_COLLECTION_FAILED") ]_vars

\* C23: processPayment never throws; when the SDK's call resolves with an error
\* field or rejects it returns a failure with PAYMENT_PROCESSING_FAILED, and when
\* it resolves with a payment intent it returns success with that intent.
C23_ProcessFailuresAreResults ==
  [][ \A t \in Tasks :
        /\ (ret'[t].fn = "processPayment" /\ ret'[t] # ret[t]) => ret'[t].kind = "value"
        /\ \A o \in SdkProcessOutcomes :
             processPayment_settled(t, o)
             => IF o = "paymentIntent"
                THEN ret'[t] = Success("processPayment", PI)
                ELSE /\ ret'[t].kind = "value"
                     /\ ~ret'[t].ok
                     /\ ret'[t].code = "PAYMENT_PROCESSING_FAILED" ]_vars

\* C23 witness: with the terminal initialized, one processPayment has returned a
\* failure with PAYMENT_PROCESSING_FAILED and another has returned the SDK's intent
C23_Witness ==
  /\ terminal # Null
  /\ ret[1] = Failure("processPayment", "PAYMENT_PROCESSING_FAILED", MsgSdk)
  /\ ret[2] = Success("processPayment", PI)

\* C24: when the backend answers createPaymentIntent with an intent, the
\* operation sets lastPaymentIntent to it and returns it; on every other answer
\* (a transport failure, or a response without a client secret) it returns a
\* failure with PAYMENT_INTENT_FAILED and leaves lastPaymentIntent unchanged.
C24_IntentStoredOnlyOnSuccess ==
  [][ \A t \in Tasks : \A resp \in IntentResponses :
        createPaymentIntent_answered(t, resp)
        => IF /\ resp.kind = "resolved"
              /\ Truthy(OptGet(OptGet(resp.body, "data"), "client_secret"))
           THEN /\ ret'[t] = Success("createPaymentIntent", PI)
                /\ state'.lastPaymentIntent = ret'[t].data
           ELSE /\ ret'[t].kind = "value"
                /\ ~ret'[t].ok
                /\ ret'[t].code = "PAYMENT_INTENT_FAILED"
                /\ state'.lastPaymentIntent = state.lastPaymentIntent ]_vars

\* C24 witness: a createPaymentIntent has failed after an earlier one had stored
\* its intent, which is still there
C24_Witness ==
  /\ ret[1].fn = "createPaymentIntent"
  /\ ret[1].kind = "value" /\ ~ret[1].ok
  /\ ret[1].code = "PAYMENT_INTENT_FAILED"
  /\ state.lastPaymentIntent = PI

\* C25: every ApiClient call is bounded by config.httpTimeoutMs, which is shorter
\* than config.timeoutMs: a pending request never waits longer than the HTTP
\* timeout, a call never lasts as long as the collection timeout, a request the
\* backend never answers ends as a failure Result when the HTTP timeout is
\* reached, and every pending call eventually returns.
C25_HttpTimeoutBoundsCalls ==
  /\ [](api.phase = "pending" => api.waited <= DEFAULT_CONFIG.httpTimeoutMs)
  /\ [](api.waited < DEFAULT_CONFIG.timeoutMs)
  /\ []((api.phase = "done" /\ api.resp = Rejected("timeout"))
          => (/\ api.result.kind = "value"
              /\ ~api.result.ok
              /\ api.waited = DEFAULT_CONFIG.httpTimeoutMs))
  /\ (api.phase = "pending") ~> (api.phase = "done")

\* C25 witness: the backend never answered a request, and the call has returned
\* a failure after the HTTP timeout
C25_Witness ==
  /\ api.phase = "done"
  /\ api.method = "createPaymentIntent"
  /\ api.resp = Rejected("timeout")
  /\ api.waited = DEFAULT_CONFIG.httpTimeoutMs
  /\ ~api.result.ok

\* C26: in the application (onMounted's autoConnect and handlePayment), at most
\* one discover, connect or collect operation is outstanding against the SDK
\* handle at any time.
C26_OneSdkOperation ==
  Cardinality({ f \in InFlight({ "discoverReaders", "connectReader",
                                 "collectPaymentMethod" }) :
                  stack[f[1]][f[2]].pc = "await_sdk" }) <= 1

\* C27: within one handlePayment attempt collectPaymentMethod is invoked only
\* after createPaymentIntent returned success, processPayment is invoked at most
\* once and only after collectPaymentMethod returned success, and nothing
\* follows a failed step.
C27_StepsInOrder ==
  LET s == flow.steps IN
  /\ \A i \in 1..Len(s) :
       /\ s[i] = "collect_called" => \E j \in 1..(i - 1) : s[j] = "intent_ok"
       /\ s[i] = "process_called" => \E j \in 1..(i - 1) : s[j] = "collect_ok"
       /\ s[i] \in { "intent_failed", "collect_failed", "process_failed" } => i = Len(s)
  /\ Cardinality({ i \in 1..Len(s) : s[i] = "process_called" }) <= 1

\* C27 witness: an attempt went through every step, in order
C27_Witness ==
  /\ At(PayTask, HP, "result_ui")
  /\ flow.steps = << "intent_ok", "collect_called", "collect_ok",
                     "process_called", "process_ok" >>

\* C28: the promise withTimeout returns settles exactly once, with the outcome
\* of whichever came first: the timer (it rejects with the timeout error, and a
\* later outcome of the wrapped promise is discarded) or the wrapped promise
\* (its outcome is passed on, and the timer never fires).
C28_FirstEventWins ==
  /\ race.first = "none" => (race.outer = "pending" /\ race.settles = 0)
  /\ race.first # "none" => (race.outer = race.first /\ race.settles = 1)
  /\ race.first \in InnerOutcomes => race.timer # "fired"
  /\ (race.user = "withTimeout" /\ race.pc = "done")
       => race.result = RaceOutcome(race, "withTimeout", race.first)

\* C28 witness: the timer fired first, the wrapped promise resolved with a
\* payment intent afterwards, and the caller got the timeout error
C28_Witness ==
  /\ race.user = "withTimeout"
  /\ race.variant = "terminal-service"
  /\ race.pc = "done"
  /\ race.first = "timeout"
  /\ race.inner = "resolved_intent"
  /\ race.result = Thrown("withTimeout", "Error", "Operation timed out")

\* C29: in StripeTerminalService.collectPaymentMethod, when the raced collection
\* fails (the timer fired first, or the SDK rejected) the cancel command is
\* issued exactly once, an error of that command is swallowed and the caller
\* gets the error of the collection; when the collection succeeds no cancel
\* command is issued.
C29_FailedRaceCancelsOnce ==
  race.user = "collectPaymentMethod" =>
    /\ race.first \in {"none", "resolved_intent", "resolved_error"} => race.cancels = 0
    /\ race.pc = "await_cancel" => race.cancels = 1
    /\ (race.pc = "done" /\ race.first \in {"timeout", "rejected"})
         => (/\ race.cancels = 1
             /\ race.result.kind = "throw"
             /\ race.result = RaceOutcome(race, "collectPaymentMethod", race.first))
    /\ (race.pc = "done" /\ race.first = "resolved_intent")
         => race.result = Success("collectPaymentMethod", PI)

\* C29 witness: the timer fired first, the cancel command failed, and the caller
\* got the timeout error
C29_Witness ==
  /\ race.user = "collectPaymentMethod"
  /\ race.pc = "done"
  /\ race.first = "timeout"
  /\ race.cancels = 1
  /\ race.cancel = "rejected"
  /\ race.result = Thrown("collectPaymentMethod", "Error", "Payment collection timed out")

\* C30: when discoverReaders succeeds, availableReaders is exactly the list the
\* SDK reported (the empty list included) and that list is returned; when it
\* fails it returns a failure Result, sets lastError and leaves availableReaders,
\* currentReader and isConnected as they were.
C30_DiscoveryReplacesReaders ==
  [][ \A t \in Tasks :
        /\ \A readers \in ReaderLists :
             discoverReaders_found(t, readers)
             => (/\ state'.availableReaders = readers
                 /\ ret'[t] = SuccessList("discoverReaders", readers))
        /\ (/\ discoverReaders_location(t) \/ discoverReaders_sdk(t)
            /\ ret'[t].fn = "discoverReaders"
            /\ ~ret'[t].ok)
           => (/\ ret'[t].kind = "value"
               /\ state'.lastError # Null
               /\ state'.availableReaders = state.availableReaders
               /\ state'.currentReader = state.currentReader
               /\ state'.isConnected = state.isConnected) ]_vars

\* C30 witness: a discovery has failed in a connected session that had readers
\* from an earlier discovery, which are all still there
C30_Witness ==
  /\ ret[1].fn = "discoverReaders"
  /\ ret[1].kind = "value" /\ ~ret[1].ok
  /\ state.availableReaders = << "r2", "r1" >>
  /\ state.isConnected
  /\ state.currentReader = "r2"
  /\ state.lastError # Null

\* C31: discoverReaders requires isInitialized: neither the backend location
\* lookup nor the SDK's discover call is issued by a discoverReaders that runs
\* while isInitialized = false.
C31_DiscoverNeedsInitialized ==
  [][ \A t \in Tasks :
        (/\ stack'[t] # <<>>
         /\ stack'[t] # stack[t]
         /\ stack'[t][Len(stack'[t])].fn = "discoverReaders")
        => state.isInitialized ]_vars

\* C32: connectAndInitializeReader runs initialize (if not initialized), then
\* disconnect (if connected), then discover, then connect to the first reader
\* discovered; a step that failed ends it with a rejection before any later
\* step, and when the connect succeeds it returns that reader, which is then
\* currentReader with isConnected = true.  After disconnect() a currentReader
\* still set shows that the SDK's disconnect failed.
C32_CompositionStopsOnFailure ==
  [][ \A t \in Tasks :
        /\ (Awaited(t, CAIR, "await_init") /\ ret[t].kind = "throw" /\ stack'[t] # stack[t])
             => (stack'[t] = Below(t) /\ ret'[t].kind = "throw")
        /\ (Awaited(t, CAIR, "await_disconnect") /\ state.currentReader # Null
              /\ stack'[t] # stack[t])
             => (stack'[t] = Below(t) /\ ret'[t].kind = "throw")
        /\ (Awaited(t, CAIR, "await_discover") /\ stack'[t] # stack[t])
             => IF ret[t].ok /\ ret[t].list # <<>>
                THEN \/ /\ Len(stack'[t]) = Len(stack[t]) + 1
                        /\ stack'[t][Len(stack'[t])] =
                             Frame("connectReader", "await_sdk", ret[t].list[1])
                     \/ ret'[t].fn = "connectReader"
                ELSE stack'[t] = Below(t) /\ ret'[t].kind = "throw"
        /\ (Awaited(t, CAIR, "await_connect") /\ stack'[t] # stack[t])
             => /\ stack'[t] = Below(t)
                /\ IF ret[t].ok THEN ret'[t] = Success(CAIR, ret[t].data)
                                ELSE ret'[t].kind = "throw"
        /\ (connectReader_sdk(t) /\ ret'[t].ok)
             => (state'.isConnected /\ state'.currentReader = ret'[t].data) ]_vars


C34_ReaderOnlyOnConnection ==
  /\ [](state.currentReader # Null => state.isConnected)
  /\ [][ (state'.currentReader # Null /\ state'.currentReader # state.currentReader)
         => \E t \in Tasks : /\ At(t, "connectReader", "await_sdk")
                             /\ ret'[t] = Success("connectReader", state'.currentReader)
                             /\ state'.isConnected ]_vars

\* C34 witness: a reader is connected and is the current reader
C34_Witness ==
  /\ state.currentReader \in Readers
  /\ state.isConnected
  /\ sdk.reader = state.currentReader


\* C35: every failure discoverReaders returns is a Result with code
\* NO_READERS_FOUND, whatever the cause: a failed location lookup (raised inside
\* as LOCATION_ID_FETCH_FAILED), a missing terminal handle, or an error from the
\* SDK's discovery.
C35_DiscoverFailuresShareCode ==
  [][ \A t \in Tasks :
        /\ (ret'[t].fn = "discoverReaders" /\ ret'[t] # ret[t] /\ ~ret'[t].ok)
             => (ret'[t].kind = "value" /\ ret'[t].code = "NO_READERS_FOUND")
        /\ (At(t, "discoverReaders", "await_location") /\ stack'[t] # stack[t])
             => \/ /\ ret'[t].kind = "value"
                   /\ ~ret'[t].ok
                   /\ ret'[t].code = "NO_READERS_FOUND"
                \/ /\ terminal # Null
                   /\ stack'[t] = Append(Below(t), Frame("discoverReaders", "await_sdk", Null)) ]_vars

\* C35 witness: one discoverReaders has failed on the location lookup and, with
\* the terminal handle present, another on the SDK's discovery
C35_Witness ==
  /\ terminal # Null
  /\ ret[1] = Failure("discoverReaders", "NO_READERS_FOUND", "Invalid location ID response")
  /\ ret[2] = Failure("discoverReaders", "NO_READERS_FOUND", MsgSdk)


\* C36: lastError is never cleared: once it is non-null it is non-null in every
\* later state, also after operations that succeed.
C36_LastErrorSticks ==
  [][ state.lastError # Null => state'.lastError # Null ]_vars

\* C36 witness: an error is on record, and after it the readers were discovered
\* and one of them connected successfully
C36_Witness ==
  /\ state.lastError # Null
  /\ state.availableReaders # <<>>
  /\ state.isConnected
  /\ ret[1] = Success("connectReader", state.currentReader)


\* C37: whenever handlePayment returns, isProcessing = false; and unless it
\* returns from the failed connection check (after the toast), the amount is
\* '0' and the countdown modal, if one was created, is dismissed.
C37_ReturnResetsPage ==
  [][ (stack[PayTask] # <<>> /\ stack'[PayTask] = <<>>)
      => /\ ~flow'.isProcessing
         /\ ~At(PayTask, HP, "await_toast")
              => /\ flow'.amount = "0"
                 /\ flow'.countdownModal \in {Null, "dismissed"} ]_vars

\* C37 witness: handlePayment has returned from a cancelled payment after an
\* amount was typed; the page is idle again, the amount '0', the modal dismissed
C37_Witness ==
  /\ Idle(PayTask)
  /\ flow.outcome = "cancelled"
  /\ flow.countdownModal = "dismissed"
  /\ flow.amount = "0"
  /\ ~flow.isProcessing


(***************************************************************************)
(* PaymentCountdown.vue: the countdown shown while the customer presents   *)
(* the card.  emitted is the history of the events the component emitted.  *)
(***************************************************************************)
\* startCountdown(): timeRemaining = props.timeOut, the old interval cleared, a new one set
startCountdown(c) == [c EXCEPT !.timeRemaining = c.timeOut, !.timerInterval = "set"]

\* stopCountdown(): the interval, if any, cleared and forgotten
stopCountdown(c) == [c EXCEPT !.timerInterval = Null]

\* <script setup> of a new instance: timeRemaining = ref(props.timeOut), timerInterval
\* = ref(null), and watch(() => props.isOpen, ...) registered without `immediate`,
\* so the callback does not run for the value the prop has at creation
PaymentCountdown_setup(isOpen, timeOut) ==
  /\ countdown.phase # "mounted"
  /\ countdown' = [ phase |-> "mounted", isOpen |-> isOpen, timeOut |-> timeOut,
                    timeRemaining |-> timeOut, timerInterval |-> Null,
                    watched |-> FALSE, emitted |-> <<>> ]
  /\ UNCHANGED <<state, terminal, sdk, stack, ret, timedOut, flow, api, race, keypad>>

\* the parent changes props.isOpen: the watcher's callback runs with the new value
watch_isOpen ==
  /\ countdown.phase = "mounted"
  /\ LET c == [countdown EXCEPT !.isOpen = ~countdown.isOpen, !.watched = TRUE]
     IN countdown' = IF c.isOpen THEN startCountdown(c) ELSE stopCountdown(c)
  /\ UNCHANGED <<state, terminal, sdk, stack, ret, timedOut, flow, api, race, keypad>>

\* the setInterval callback, one second later: timeRemaining--, and at zero
\* stopCountdown() and emit('timeout')
interval_tick ==
  /\ countdown.timerInterval # Null
  /\ countdown.timeRemaining > 1 \/ Len(countdown.emitted) < MaxEmits
  /\ LET c == [countdown EXCEPT !.timeRemaining = @ - 1]
     IN countdown' = IF c.timeRemaining <= 0
                     THEN [stopCountdown(c) EXCEPT !.emitted = Append(@, "timeout")]
                     ELSE c
  /\ UNCHANGED <<state, terminal, sdk, stack, ret, timedOut, flow, api, race, keypad>>

\* onCancel(): the Cancel button
onCancel ==
  /\ countdown.phase = "mounted"
  /\ Len(countdown.emitted) < MaxEmits
  /\ countdown' = [stopCountdown(countdown) EXCEPT !.emitted = Append(@, "cancel")]
  /\ UNCHANGED <<state, terminal, sdk, stack, ret, timedOut, flow, api, race, keypad>>

\* onUnmounted(() => stopCountdown())
onUnmounted ==
  /\ countdown.phase = "mounted"
  /\ countdown' = [stopCountdown(countdown) EXCEPT !.phase = "unmounted"]
  /\ UNCHANGED <<state, terminal, sdk, stack, ret, timedOut, flow, api, race, keypad>>

NextCountdown ==
  \/ \E isOpen \in BOOLEAN, timeOut \in 1..MaxTimeOut : PaymentCountdown_setup(isOpen, timeOut)
  \/ watch_isOpen
  \/ interval_tick
  \/ onCancel
  \/ onUnmounted

CountdownSpec == Init /\ [][NextCountdown]_vars

\* C38: a PaymentCountdown created with isOpen = true, whose isOpen never
\* changed, counts down: until it has emitted 'timeout' or 'cancel' its interval
\* is running; 'timeout' is emitted at most once, and only when timeRemaining
\* has gone from timeOut to 0; timeRemaining is never below 0; and once the user
\* has cancelled, no 'timeout' follows.
C38_CountdownRunsToTimeout ==
  LET c == countdown
      timeouts == { i \in DOMAIN c.emitted : c.emitted[i] = "timeout" }
  IN /\ c.timeRemaining >= 0
     /\ (c.phase = "mounted" /\ c.isOpen /\ ~c.watched)
          => /\ c.emitted = <<>> => c.timerInterval # Null
             /\ Cardinality(timeouts) <= 1
             /\ timeouts # {} => (c.emitted[1] = "timeout" /\ c.timeRemaining = 0)


(***************************************************************************)
(* NumericKeypad.vue: the amount string, as the sequence of its characters *)
(***************************************************************************)
\* keypadRows: the keys of the pad
keypadRows == { "1", "2", "3", "4", "5", "6", "7", "8", "9", "CLEAR", "0", "." }

\* a keypad that appends every digit
handleKeyPress_append(modelValue, key) ==
  IF key = "CLEAR" THEN <<"0">>
  ELSE IF key = "." /\ \E i \in DOMAIN modelValue : modelValue[i] = "." THEN modelValue
  ELSE Append(modelValue, key)

\* handleKeyPress(key): the value emitted as update:modelValue (the value is kept
\* where the handler returns without emitting)
handleKeyPress(modelValue, key) ==
  IF key = "CLEAR" THEN <<"0">>
  ELSE IF key = "."
  THEN IF \E i \in DOMAIN modelValue : modelValue[i] = "."
       THEN modelValue
       ELSE Append(modelValue, key)
  ELSE LET \* newValue.indexOf('.'), counted from 1; 0 stands for -1
           decimalIndex ==
             IF \E i \in DOMAIN modelValue : modelValue[i] = "."
             THEN CHOOSE i \in DOMAIN modelValue :
                    /\ modelValue[i] = "."
                    /\ \A j \in 1..(i - 1) : modelValue[j] # "."
             ELSE 0
           decimalPart == SubSeq(modelValue, decimalIndex + 1, Len(modelValue))
       IN IF decimalIndex # 0 /\ Len(decimalPart) > 1
          THEN modelValue
          ELSE IF modelValue = <<"0">> THEN <<key>> ELSE Append(modelValue, key)

\* the user presses a key; v-model stores the emitted value
keyPressed(key) ==
  /\ Len(handleKeyPress(keypad, key)) <= MaxAmountLen
  /\ keypad' = handleKeyPress(keypad, key)
  /\ UNCHANGED <<state, terminal, sdk, stack, ret, timedOut, flow, api, race, countdown>>

KeypadSpec == Init /\ [][\E key \in keypadRows : keyPressed(key)]_vars

=============================================================================
